---- MODULE Spec2Model ----
(***************************************************************************)
(* AES-256-CBC file encryption demo (poc/test-libraries/python/AES.py).    *)
(*                                                                         *)
(* The model follows class AESCipher: __init__, _cipher, encrypt, decrypt, *)
(* _pad, _unpad, and the variables of main().  Byte strings are sequences  *)
(* of integers 0..255.  base64 text is a sequence of symbols: 0..63 are    *)
(* the alphabet, 64 is '=' and 65 stands for any character outside the     *)
(* alphabet.  The AES block permutation comes from the cryptography        *)
(* package; it is modelled by a keyed bijection on 16-byte blocks, and the *)
(* CBC chaining around it is modelled as CBC chains.                       *)
(***************************************************************************)
EXTENDS Integers, Sequences, FiniteSets, TLC

\* AESCipher.block_size = int(algorithms.AES.block_size / 8)
block_size == 16

\* ------------------------------------------------------------------ bounds
\* Number of concurrent callers of the one cipher instance.
NumThreads == 2
\* Number of values the random source hands out in one behaviour.
MaxDraws == 2
\* Longest plaintext handed to encrypt.
MaxLen == 33

Threads == 1..NumThreads

\* ------------------------------------------------------------------- bytes
Byte == 0..255

RECURSIVE XorBits(_, _, _)
XorBits(a, b, n) ==
    IF n = 0 THEN 0
    ELSE (((a % 2) + (b % 2)) % 2) + 2 * XorBits(a \div 2, b \div 2, n - 1)

XorByte(a, b) == XorBits(a, b, 8)

XorBlock(x, y) == [i \in 1..block_size |-> XorByte(x[i], y[i])]

\* Python slices s[:-n] and s[-n:] for n > 0 (a slice never raises).
DropLast(s, n) == IF Len(s) <= n THEN << >> ELSE SubSeq(s, 1, Len(s) - n)
TakeLast(s, n) == IF Len(s) <= n THEN s ELSE SubSeq(s, Len(s) - n + 1, Len(s))

Repeat(b, n) == [i \in 1..n |-> b]

\* ------------------------------------------------------------------ base64
B64Pad == 64
B64Junk == 65

ByteAt(s, i) == IF i <= Len(s) THEN s[i] ELSE 0

\* base64.b64encode: each group of three bytes gives four symbols, a short
\* last group is filled with '='.
B64Encode(s) ==
    [k \in 1..(4 * ((Len(s) + 2) \div 3)) |->
        LET g == (k - 1) \div 4
            r == (k - 1) % 4
            x == ByteAt(s, 3 * g + 1)
            y == ByteAt(s, 3 * g + 2)
            z == ByteAt(s, 3 * g + 3)
        IN  IF r = 0 THEN x \div 4
            ELSE IF r = 1 THEN (x % 4) * 16 + y \div 16
            ELSE IF r = 2 THEN
                IF 3 * g + 2 > Len(s) THEN B64Pad ELSE (y % 16) * 4 + z \div 64
            ELSE IF 3 * g + 3 > Len(s) THEN B64Pad ELSE z % 64]

\* The bytes that the alphabet symbols d carry: three for each whole quad,
\* one or two for a last quad of two or three symbols.
B64Bytes(d) ==
    [j \in 1..(3 * (Len(d) \div 4)
               + (IF Len(d) % 4 = 0 THEN 0 ELSE (Len(d) % 4) - 1)) |->
        IF (j - 1) % 3 = 0
        THEN d[4 * ((j - 1) \div 3) + 1] * 4
             + d[4 * ((j - 1) \div 3) + 2] \div 16
        ELSE IF (j - 1) % 3 = 1
        THEN (d[4 * ((j - 1) \div 3) + 2] % 16) * 16
             + d[4 * ((j - 1) \div 3) + 3] \div 4
        ELSE (d[4 * ((j - 1) \div 3) + 3] % 4) * 64
             + d[4 * ((j - 1) \div 3) + 4]]

IsAlphabet(x) == x < B64Pad
NotJunk(x) == x <= B64Pad

\* Number of alphabet symbols of the current quad read before f[i].
QuadPos(f, i) == Cardinality({j \in 1..(i - 1) : IsAlphabet(f[j])}) % 4

\* The places where a pad sequence completes the current quad.
PadStops(f) ==
    {i \in 1..Len(f) :
        /\ f[i] = B64Pad
        /\ \/ QuadPos(f, i) = 3
           \/ QuadPos(f, i) = 2 /\ i > 1 /\ f[i - 1] = B64Pad}

B64DecodeData(d) ==
    IF Len(d) % 4 # 0 THEN [ok |-> FALSE, bytes |-> << >>]
    ELSE [ok |-> TRUE, bytes |-> B64Bytes(d)]

B64DecodeUpTo(f, stops) ==
    IF stops # {}
    THEN [ok |-> TRUE,
          bytes |-> B64Bytes(SelectSeq(
                        SubSeq(f, 1, (CHOOSE i \in stops :
                                         \A j \in stops : i <= j) - 1),
                        IsAlphabet))]
    ELSE B64DecodeData(SelectSeq(f, IsAlphabet))

B64DecodeKept(f) == B64DecodeUpTo(f, PadStops(f))

\* base64.b64decode, that is binascii.a2b_base64 in its default, non-strict
\* mode.  Characters outside the alphabet are skipped.  A '=' met with two
\* or three symbols of the current quad read counts as padding, and the
\* parse ends (the rest is ignored) once the padding completes the quad;
\* any other '=' is skipped.  Input that ends inside a quad is an error:
\* ok = FALSE stands for binascii.Error.
B64Decode(c) == B64DecodeKept(SelectSeq(c, NotJunk))

\* ------------------------------------------------------------ block cipher
\* The AES-256 block permutation of the cryptography package, as a keyed
\* bijection on blocks: add two key bytes, an affine byte substitution
\* (5 * 205 = 1 mod 256), and a rotation of the byte positions.
SubByte(x) == (5 * x + 17) % 256
InvSubByte(y) == (205 * (y + 256 - 17)) % 256

RotIdx(i) == (i % block_size) + 1

BlockEncrypt(key, b) ==
    [i \in 1..block_size |->
        SubByte((b[RotIdx(i)] + key[RotIdx(i)] + key[i + block_size]) % 256)]

BlockDecrypt(key, c) ==
    [j \in 1..block_size |->
        LET i == IF j = 1 THEN block_size ELSE j - 1 IN
        (InvSubByte(c[i]) + 512 - key[j] - key[i + block_size]) % 256]

Block(s, k) == SubSeq(s, (k - 1) * block_size + 1, k * block_size)

\* encryptor.update(padded) + encryptor.finalize() under modes.CBC(iv)
RECURSIVE CbcEncryptFrom(_, _, _, _)
CbcEncryptFrom(key, prev, s, k) ==
    IF k * block_size > Len(s) THEN << >>
    ELSE LET c == BlockEncrypt(key, XorBlock(Block(s, k), prev))
         IN  c \o CbcEncryptFrom(key, c, s, k + 1)

CbcEncrypt(key, iv, padded) == CbcEncryptFrom(key, iv, padded, 1)

RECURSIVE CbcDecryptFrom(_, _, _, _)
CbcDecryptFrom(key, prev, s, k) ==
    IF k * block_size > Len(s) THEN << >>
    ELSE XorBlock(BlockDecrypt(key, Block(s, k)), prev)
         \o CbcDecryptFrom(key, Block(s, k), s, k + 1)

\* The classic slip: every block is unchained with the IV.
CbcDecryptNoChain(key, iv, ct) ==
    IF Len(ct) = 0 THEN << >>
    ELSE LET F[k \in 1..(Len(ct) \div block_size)] ==
                 XorBlock(BlockDecrypt(key, Block(ct, k)), iv)
             G[k \in 0..(Len(ct) \div block_size)] ==
                 IF k = 0 THEN << >> ELSE G[k - 1] \o F[k]
         IN  G[Len(ct) \div block_size]

\* decryptor.update(cipher_text) + decryptor.finalize() under modes.CBC(iv);
\* the caller has checked that the length is a multiple of the block size.
CbcDecrypt(key, iv, ct) == CbcDecryptFrom(key, iv, ct, 1)

\* ----------------------------------------------------------------- padding
\* A pad that adds nothing to an aligned input.
PadNoFullBlock(raw) ==
    LET ordinal == (block_size - (Len(raw) % block_size)) % block_size
    IN  raw \o Repeat(ordinal, ordinal)

\* AESCipher._pad
Pad(raw) ==
    LET ordinal == block_size - (Len(raw) % block_size)
    IN  raw \o Repeat(ordinal, ordinal)

\* AESCipher._unpad: padded[:-padded[-1]].  padded[-1] raises IndexError on
\* the empty string; a slice [:-0] is [:0], the empty string.
Unpad(padded) ==
    IF Len(padded) = 0 THEN [err |-> "IndexError", bytes |-> << >>]
    ELSE LET n == padded[Len(padded)] IN
         [err |-> "none",
          bytes |-> IF n = 0 THEN << >> ELSE DropLast(padded, n)]

\* ------------------------------------------------------------------ inputs
\* os.urandom(AESCipher.block_size): the n-th value the random source hands
\* out.  The source is taken never to return the same value twice.
RandomIV(n) == [i \in 1..block_size |-> (97 * n + 11 * i + 5) % 256]

\* Keys offered to the constructor: 0, 128, 192, 248, 256, 264 and 512 bits.
KeyLens == {0, 16, 24, 31, 32, 33, 64}
Keys == { [i \in 1..n |-> (s + 7 * i) % 256] : n \in KeyLens, s \in {3, 200} }

\* Plaintexts: empty, inside a block, on a block boundary, across blocks;
\* filled with a byte that looks like padding or with a ramp.
PlainLens == {0, 1, 15, 16, 17, 32, MaxLen}
Plaintexts ==
    { [i \in 1..n |-> b] : n \in PlainLens, b \in {1, 16} }
    \cup { [i \in 1..n |-> (i * 13) % 256] : n \in PlainLens }

\* The inputs of the concurrent callers.
ConcKeys == { [i \in 1..n |-> (3 + 7 * i) % 256] : n \in {16, 32} }
ConcPlaintexts == { << 16 >> }
ConcForeignInputs == { << 16 >> }

\* One bit of one byte of a byte string flipped.
FlipBit(s, pos, bit) ==
    LET mask == IF bit = 0 THEN 1 ELSE 128
    IN  [s EXCEPT ![pos] = XorByte(s[pos], mask)]

\* Where a stored blob is tampered with: its first byte, the last byte
\* before the final block, or its last byte; the lowest or the highest bit.
TamperPlaces == {"first", "inner", "last"}
TamperBits == {0, 7}

TamperPos(raw, place) ==
    IF place = "first" THEN 1
    ELSE IF place = "inner" THEN Len(raw) - block_size
    ELSE Len(raw)

TamperedRaw(raw, places, bits) ==
    { B64Encode(FlipBit(raw, TamperPos(raw, place), bit)) :
          place \in places, bit \in bits }

Tampered(blob, places, bits) ==
    TamperedRaw(B64Decode(blob).bytes, places, bits)

\* Inputs to decrypt that no encrypt call produced.
ForeignInputs ==
    { << >>, << 16 >>, << 16, 16, B64Pad >>, << 16, 16, B64Pad, B64Pad >>,
      << B64Junk, 16, 16, B64Pad, B64Pad >>,
      B64Encode(Repeat(0, block_size)),
      B64Encode(Repeat(0, block_size + 1)),
      B64Encode(Repeat(7, 2 * block_size)) }

\* ------------------------------------------------------------------- state
VARIABLES
    aes,            \* the AESCipher instance of main(): made, _key
    ctor,           \* the last call of AESCipher(key): key, outcome
    rng,            \* number of values os.urandom has handed out for IVs
    ivLog,          \* the IVs encrypt calls have handed to _cipher, in order
    encrypted_file, \* what main() wrote: blob, with its original and IV
    call            \* per caller: the frame of its encrypt or decrypt call

vars == << aes, ctor, rng, ivLog, encrypted_file, call >>

Idle ==
    [pc |-> "idle", raw |-> << >>, encoded |-> << >>, decoded |-> << >>,
     iv |-> << >>, ctx |-> [key |-> << >>, iv |-> << >>],
     padded |-> << >>, cipher_text |-> << >>, result |-> << >>,
     error |-> "none", steps |-> << >>, drawn |-> << >>, src |-> "none",
     original |-> << >>]

Init ==
    /\ aes = [made |-> FALSE, _key |-> << >>]
    /\ ctor = [key |-> << >>, outcome |-> "none"]
    /\ rng = 0
    /\ ivLog = << >>
    /\ encrypted_file = [written |-> FALSE, blob |-> << >>,
                         original |-> << >>, iv |-> << >>]
    /\ call = [t \in Threads |-> Idle]

\* ------------------------------------------------------------- constructor
\* The key sizes AES itself admits.
KeySizeAnyAes(key) == Len(key) * 8 \in {128, 192, 256}

\* AESCipher.__init__: the test on the key size
KeySizeOk(key) == Len(key) * 8 = 256

\* aes = AESCipher(key)
Construct(key) ==
    /\ ~aes.made
    /\ IF KeySizeOk(key)
       THEN /\ aes' = [made |-> TRUE, _key |-> key]
            /\ ctor' = [key |-> key, outcome |-> "ok"]
       ELSE /\ aes' = aes
            /\ ctor' = [key |-> key, outcome |-> "ValueError"]
    /\ UNCHANGED << rng, ivLog, encrypted_file, call >>

\* ----------------------------------------------------------------- encrypt
Step(t, name) == Append(call[t].steps, name)

EncryptsBeforeDraw == Cardinality({t \in Threads : call[t].pc = "e1"})

\* aes.encrypt(raw) is entered
CallEncrypt(t, p) ==
    /\ aes.made
    /\ call[t].pc = "idle"
    /\ rng + EncryptsBeforeDraw < MaxDraws
    /\ call' = [call EXCEPT ![t] = [Idle EXCEPT !.pc = "e1", !.raw = p]]
    /\ UNCHANGED << aes, ctor, rng, ivLog, encrypted_file >>

\* The IV kept where every call of the instance reads it.
EncryptDrawIVShared(t) ==
    /\ call[t].pc = "e1"
    /\ call' = [u \in Threads |->
                   IF u = t
                   THEN [call[t] EXCEPT !.pc = "e2", !.iv = RandomIV(rng),
                                        !.drawn = RandomIV(rng),
                                        !.steps = Step(t, "urandom")]
                   ELSE [call[u] EXCEPT !.iv = RandomIV(rng)]]
    /\ rng' = rng + 1
    /\ UNCHANGED << aes, ctor, ivLog, encrypted_file >>

\* iv = os.urandom(AESCipher.block_size)
EncryptDrawIV(t) ==
    /\ call[t].pc = "e1"
    /\ call' = [call EXCEPT ![t] = [@ EXCEPT !.pc = "e2",
                                             !.iv = RandomIV(rng),
                                             !.drawn = RandomIV(rng),
                                             !.steps = Step(t, "urandom")]]
    /\ rng' = rng + 1
    /\ UNCHANGED << aes, ctor, ivLog, encrypted_file >>

\* A cipher context that ignores the IV it is given.
CipherFixedIV(iv) == [key |-> aes._key, iv |-> Repeat(0, block_size)]

\* AESCipher._cipher: Cipher(algorithms.AES(self._key), modes.CBC(iv))
Cipher(iv) == [key |-> aes._key, iv |-> iv]

\* encryptor = self._cipher(iv).encryptor()
EncryptCipher(t) ==
    /\ call[t].pc = "e2"
    /\ call' = [call EXCEPT ![t] = [@ EXCEPT !.pc = "e3",
                                             !.ctx = Cipher(call[t].iv),
                                             !.steps = Step(t, "cipher")]]
    /\ ivLog' = Append(ivLog, Cipher(call[t].iv).iv)
    /\ UNCHANGED << aes, ctor, rng, encrypted_file >>

\* padded = self._pad(raw)
EncryptPad(t) ==
    /\ call[t].pc = "e3"
    /\ call' = [call EXCEPT ![t] = [@ EXCEPT !.pc = "e4",
                                             !.padded = Pad(call[t].raw),
                                             !.steps = Step(t, "pad")]]
    /\ UNCHANGED << aes, ctor, rng, ivLog, encrypted_file >>

\* cipher_text = encryptor.update(padded) + encryptor.finalize()
EncryptUpdate(t) ==
    /\ call[t].pc = "e4"
    /\ call' = [call EXCEPT ![t] =
                   [@ EXCEPT !.pc = "e5",
                             !.cipher_text = CbcEncrypt(call[t].ctx.key,
                                                        call[t].ctx.iv,
                                                        call[t].padded),
                             !.steps = Step(t, "cbc_encrypt")]]
    /\ UNCHANGED << aes, ctor, rng, ivLog, encrypted_file >>

\* The IV put in front of the ciphertext.
LayoutIVFirst(cipher_text, iv) == iv \o cipher_text

\* encrypt: the byte string handed to b64encode, cipher_text + iv
Layout(cipher_text, iv) == cipher_text \o iv

\* return base64.b64encode(cipher_text + iv)
EncryptReturn(t) ==
    /\ call[t].pc = "e5"
    /\ call' = [call EXCEPT ![t] =
                   [@ EXCEPT !.pc = "sealed",
                             !.result = B64Encode(Layout(call[t].cipher_text,
                                                         call[t].iv)),
                             !.steps = Step(t, "b64encode")]]
    /\ UNCHANGED << aes, ctor, rng, ivLog, encrypted_file >>

\* main(): encrypted_file.write(encrypted)
WriteEncrypted(t) ==
    /\ call[t].pc = "sealed"
    /\ encrypted_file' = [written |-> TRUE, blob |-> call[t].result,
                          original |-> call[t].raw, iv |-> call[t].iv]
    /\ call' = [call EXCEPT ![t] = Idle]
    /\ UNCHANGED << aes, ctor, rng, ivLog >>

\* ----------------------------------------------------------------- decrypt
\* aes.decrypt(encoded) is entered; src and original record where the input
\* came from: "sealed" is the stored blob as written, "tampered" the stored
\* blob with one bit flipped, "foreign" an input no encrypt call produced.
CallDecrypt(t, input, src) ==
    /\ aes.made
    /\ call[t].pc = "idle"
    /\ call' = [call EXCEPT ![t] =
                   [Idle EXCEPT !.pc = "d1", !.encoded = input, !.src = src,
                                !.original = IF src = "foreign" THEN << >>
                                             ELSE encrypted_file.original]]
    /\ UNCHANGED << aes, ctor, rng, ivLog, encrypted_file >>

Raise(t, name, error) ==
    [call[t] EXCEPT !.pc = "raised", !.error = error, !.steps = Step(t, name)]

\* raw = base64.b64decode(encoded)
DecryptDecode(t) ==
    /\ call[t].pc = "d1"
    /\ LET r == B64Decode(call[t].encoded) IN
       call' = [call EXCEPT ![t] =
                   IF r.ok
                   THEN [@ EXCEPT !.pc = "d2", !.decoded = r.bytes,
                                  !.steps = Step(t, "b64decode")]
                   ELSE Raise(t, "b64decode", "binascii.Error")]
    /\ UNCHANGED << aes, ctor, rng, ivLog, encrypted_file >>

\* decrypt: raw[:-AESCipher.block_size] and raw[-AESCipher.block_size:]
Split(raw) ==
    [cipher_text |-> DropLast(raw, block_size),
     iv |-> TakeLast(raw, block_size)]

\* cipher_text = raw[:-block_size]; iv = raw[-block_size:]
DecryptSplit(t) ==
    /\ call[t].pc = "d2"
    /\ call' = [call EXCEPT ![t] =
                   [@ EXCEPT !.pc = "d3",
                             !.cipher_text = Split(call[t].decoded).cipher_text,
                             !.iv = Split(call[t].decoded).iv,
                             !.steps = Step(t, "split")]]
    /\ UNCHANGED << aes, ctor, rng, ivLog, encrypted_file >>

\* decryptor = self._cipher(iv).decryptor(); Cipher(...) raises ValueError
\* for an IV that is not one block long.
DecryptCipher(t) ==
    /\ call[t].pc = "d3"
    /\ call' = [call EXCEPT ![t] =
                   IF Len(call[t].iv) # block_size
                   THEN Raise(t, "cipher", "ValueError")
                   ELSE [@ EXCEPT !.pc = "d4", !.ctx = Cipher(call[t].iv),
                                  !.steps = Step(t, "cipher")]]
    /\ UNCHANGED << aes, ctor, rng, ivLog, encrypted_file >>

\* padded = decryptor.update(cipher_text) + decryptor.finalize(); finalize
\* raises ValueError when the data is not a whole number of blocks.
DecryptUpdate(t) ==
    /\ call[t].pc = "d4"
    /\ call' = [call EXCEPT ![t] =
                   IF Len(call[t].cipher_text) % block_size # 0
                   THEN Raise(t, "cbc_decrypt", "ValueError")
                   ELSE [@ EXCEPT !.pc = "d5",
                                  !.padded = CbcDecrypt(call[t].ctx.key,
                                                        call[t].ctx.iv,
                                                        call[t].cipher_text),
                                  !.steps = Step(t, "cbc_decrypt")]]
    /\ UNCHANGED << aes, ctor, rng, ivLog, encrypted_file >>

\* return self._unpad(padded)
DecryptUnpad(t) ==
    /\ call[t].pc = "d5"
    /\ LET r == Unpad(call[t].padded) IN
       call' = [call EXCEPT ![t] =
                   IF r.err # "none"
                   THEN Raise(t, "unpad", r.err)
                   ELSE [@ EXCEPT !.pc = "opened", !.result = r.bytes,
                                  !.steps = Step(t, "unpad")]]
    /\ UNCHANGED << aes, ctor, rng, ivLog, encrypted_file >>

\* main(): decrypted_file.write(decrypted), or the exception leaves the call
Finish(t) ==
    /\ call[t].pc \in {"opened", "raised"}
    /\ call' = [call EXCEPT ![t] = Idle]
    /\ UNCHANGED << aes, ctor, rng, ivLog, encrypted_file >>

\* ---------------------------------------------------------- specifications
\* The steps inside a call, and its return to main().
CallStep(t) ==
    \/ EncryptDrawIV(t)
    \/ EncryptCipher(t)
    \/ EncryptPad(t)
    \/ EncryptUpdate(t)
    \/ EncryptReturn(t)
    \/ WriteEncrypted(t)
    \/ DecryptDecode(t)
    \/ DecryptSplit(t)
    \/ DecryptCipher(t)
    \/ DecryptUpdate(t)
    \/ DecryptUnpad(t)
    \/ Finish(t)

\* One caller, as in main(), over all the inputs.
Next ==
    \/ \E key \in Keys : Construct(key)
    \/ \E p \in Plaintexts : CallEncrypt(1, p)
    \/ encrypted_file.written /\ CallDecrypt(1, encrypted_file.blob, "sealed")
    \/ encrypted_file.written
         /\ \E x \in Tampered(encrypted_file.blob, TamperPlaces, TamperBits) :
                CallDecrypt(1, x, "tampered")
    \/ \E x \in ForeignInputs : CallDecrypt(1, x, "foreign")
    \/ CallStep(1)

Spec == Init /\ [][Next]_vars

\* Concurrent callers of the one instance, over a few inputs.
NextConc ==
    \/ \E key \in ConcKeys : Construct(key)
    \/ \E t \in Threads :
        \/ \E p \in ConcPlaintexts : CallEncrypt(t, p)
        \/ encrypted_file.written
             /\ CallDecrypt(t, encrypted_file.blob, "sealed")
        \/ \E x \in ConcForeignInputs : CallDecrypt(t, x, "foreign")
        \/ CallStep(t)

SpecConc == Init /\ [][NextConc]_vars

\* ------------------------------------------------------- calls run alone
\* AESCipher.encrypt run from entry to return with nothing in between.
EncryptAlone(key, iv, raw) == B64Encode(CbcEncrypt(key, iv, Pad(raw)) \o iv)

\* AESCipher.decrypt run from entry to return with nothing in between: the
\* value returned, or the exception raised.
DecryptUnpadAlone(r) == [error |-> r.err, result |-> r.bytes]

DecryptPartsAlone(key, cipher_text, iv) ==
    IF Len(iv) # block_size \/ Len(cipher_text) % block_size # 0
    THEN [error |-> "ValueError", result |-> << >>]
    ELSE DecryptUnpadAlone(Unpad(CbcDecrypt(key, iv, cipher_text)))

DecryptDecodedAlone(key, r) ==
    IF ~r.ok THEN [error |-> "binascii.Error", result |-> << >>]
    ELSE DecryptPartsAlone(key, DropLast(r.bytes, block_size),
                           TakeLast(r.bytes, block_size))

DecryptAlone(key, encoded) == DecryptDecodedAlone(key, B64Decode(encoded))

\* -------------------------------------------------------------- properties
Has(steps, name) == \E i \in 1..Len(steps) : steps[i] = name

Before(steps, a, b) ==
    \E i, j \in 1..Len(steps) : i < j /\ steps[i] = a /\ steps[j] = b

Returned(t) == call[t].pc \in {"opened", "raised"}

\* C1: decrypting, with the same instance, the blob that encrypt produced
\* for a plaintext returns exactly that plaintext, and raises nothing.
RoundTrip ==
    \A t \in Threads :
        (Returned(t) /\ call[t].src = "sealed") =>
            /\ call[t].pc = "opened"
            /\ call[t].result = call[t].original

\* A plaintext of two whole blocks has come back from decrypt.
RoundTripWitness ==
    \E t \in Threads :
        /\ call[t].pc = "opened"
        /\ call[t].src = "sealed"
        /\ Len(call[t].original) = 2 * block_size
        /\ call[t].result = call[t].original

\* C2: decrypt of a sealed blob with one bit flipped fails with
\* AuthenticationFailure and returns no plaintext.
TamperDetected ==
    \A t \in Threads :
        (Returned(t) /\ call[t].src = "tampered") =>
            /\ call[t].pc = "raised"
            /\ call[t].error = "AuthenticationFailure"

\* C3: the constructor succeeds exactly for keys of 32 bytes; a rejected key
\* leaves no instance, and an instance holds the 32-byte key it was given.
KeySizeEnforced ==
    /\ ctor.outcome # "none" =>
           ((ctor.outcome = "ok") <=> (Len(ctor.key) = 32))
    /\ ctor.outcome = "ValueError" => ~aes.made
    /\ aes.made => (Len(aes._key) = 32 /\ aes._key = ctor.key)

\* A 192-bit key has been turned down.
KeySizeWitness ==
    /\ ctor.outcome = "ValueError"
    /\ Len(ctor.key) = 24
    /\ ~aes.made

\* C4: decrypt of an input that does not decode, or decodes to fewer bytes
\* than an IV and one block (the minimum with the shortest tag, none), fails
\* before any block decryption or padding removal is attempted.
MinLengthRejected ==
    \A t \in Threads :
        (/\ call[t].pc \in {"d2", "d3", "d4", "d5", "opened", "raised"}
         /\ \/ ~B64Decode(call[t].encoded).ok
            \/ Len(B64Decode(call[t].encoded).bytes) < 2 * block_size) =>
            /\ ~Has(call[t].steps, "cbc_decrypt")
            /\ ~Has(call[t].steps, "unpad")
            /\ call[t].pc # "opened"

\* C5: the padded buffer is the input followed by n bytes of value n, with
\* n = 16 - (L mod 16), 1 <= n <= 16, and its length is a multiple of 16
\* greater than L; an aligned input gets a whole block of 16s.
PadCorrect ==
    \A t \in Threads :
        call[t].pc \in {"e4", "e5", "sealed"} =>
            LET L == Len(call[t].raw)
                n == Len(call[t].padded) - L
            IN  /\ n = 16 - (L % 16)
                /\ 1 <= n /\ n <= 16
                /\ Len(call[t].padded) % 16 = 0
                /\ Len(call[t].padded) > L
                /\ SubSeq(call[t].padded, 1, L) = call[t].raw
                /\ \A i \in (L + 1)..Len(call[t].padded) :
                       call[t].padded[i] = n
                /\ (L % 16 = 0) => (n = 16)

\* A 16-byte input has been padded to 32 bytes.
PadWitness ==
    \E t \in Threads :
        /\ call[t].pc = "e4"
        /\ Len(call[t].raw) = block_size
        /\ Len(call[t].padded) = 2 * block_size

\* The padding of a buffer is invalid: its last byte n is 0, or greater than
\* the block size or the buffer, or one of the last n bytes is not n.
BadPadding(padded) ==
    LET n == padded[Len(padded)]
    IN  \/ n = 0
        \/ n > block_size
        \/ n > Len(padded)
        \/ \E i \in (Len(padded) - n + 1)..Len(padded) : padded[i] # n

\* C6: unpad fails on invalid padding, and returns the buffer less its last
\* n bytes only when the padding is valid.
StrictUnpad ==
    \A t \in Threads :
        (Returned(t) /\ Has(call[t].steps, "unpad")
                     /\ Len(call[t].padded) > 0) =>
            /\ BadPadding(call[t].padded) => call[t].pc = "raised"
            /\ call[t].pc = "opened" =>
                   call[t].result =
                       DropLast(call[t].padded,
                                call[t].padded[Len(call[t].padded)])

VerifyThenDecrypt ==
    \A t \in Threads :
        /\ Has(call[t].steps, "cbc_decrypt") =>
               Before(call[t].steps, "verify_tag", "cbc_decrypt")
        /\ Has(call[t].steps, "unpad") =>
               Before(call[t].steps, "verify_tag", "unpad")

\* C9: an encrypt call draws its IV before it builds its cipher and uses
\* that draw; no two encrypt calls hand the same IV to the cipher.
IVFresh ==
    /\ \A i, j \in 1..Len(ivLog) : i # j => ivLog[i] # ivLog[j]
    /\ \A t \in Threads :
           call[t].pc \in {"e3", "e4", "e5", "sealed"} =>
               /\ Before(call[t].steps, "urandom", "cipher")
               /\ call[t].ctx.iv = call[t].drawn
               /\ Len(call[t].drawn) = block_size

\* Two encrypt calls are under way at once, each past its cipher.
IVFreshWitness ==
    /\ Len(ivLog) = 2
    /\ \E t, u \in Threads :
           /\ t # u
           /\ call[t].pc \in {"e3", "e4", "e5"}
           /\ call[u].pc \in {"e3", "e4", "e5"}

\* C10: the key of the instance stays the key it was constructed with, and
\* every call, whatever ran in between, returns what it returns run alone
\* on the same input, key and drawn IV.
Reentrant ==
    /\ aes.made => aes._key = ctor.key
    /\ \A t \in Threads :
           /\ call[t].pc = "sealed" =>
                  call[t].result
                      = EncryptAlone(ctor.key, call[t].drawn, call[t].raw)
           /\ Returned(t) =>
                  [error |-> call[t].error, result |-> call[t].result]
                      = DecryptAlone(ctor.key, call[t].encoded)

\* A decrypt call has returned while an encrypt call of another caller is
\* between its steps.
ReentrantWitness ==
    \E t, u \in Threads :
        /\ t # u
        /\ call[t].pc = "opened"
        /\ call[t].src = "sealed"
        /\ call[u].pc \in {"e2", "e3", "e4", "e5"}

====
